---------------------------- MODULE Spec2Model ----------------------------
(***************************************************************************)
(* A model of fyabc/vllm's Qwen2-VL input processing and vision rotary     *)
(* cache (vllm/model_executor/models/qwen2_vl.py) and of the capability    *)
(* predicates (vllm/model_executor/models/interfaces.py).                  *)
(*                                                                         *)
(* Each component has a specification of its own (SpecSplicer, SpecRotary, *)
(* SpecRotaryConc, SpecCap); the variables of the other components stay at *)
(* their idle values in it.                                                *)
(***************************************************************************)
EXTENDS Integers, Sequences, FiniteSets

VARIABLES
    llm_inputs,        \* TokenSplicer: the request handed to the input processor
    merge_size,        \* TokenSplicer: image_processor.merge_size
    splice_out,        \* TokenSplicer: what input_processor_for_qwen2_vl gave back
    seq_len_cached,    \* Rotary: Qwen2VisionRotaryEmbedding._seq_len_cached
    freqs_cached,      \* Rotary: Qwen2VisionRotaryEmbedding._freqs_cached
    rot_last,          \* Rotary: the last forward() call and what it returned
    rot_hist,          \* Rotary: every (requested length, rows served) so far
    max_requested,     \* Rotary: the largest length requested so far
    thr,               \* Rotary, concurrent: each thread's position in forward()
    model_cls,         \* Capabilities: the attributes the model class declares
    q_type,            \* Capabilities: the last predicate call on the class
    q_inst,            \* Capabilities: the last predicate call on an instance
    quant_cfgs,        \* Quant: each QuantizationConfig's packed_modules_mapping
    cls_mappings,      \* Quant: each model class's declared packed_modules_mapping
    quant_models,      \* Quant: the instances constructed so far
    quant_last,        \* Quant: the last construction, its arguments and result
    vt,                \* Vision: the Qwen2VisionTransformer under construction/use
    vt_out,            \* Vision: the last forward() of the vision transformer
    orch_in,           \* Orchestrator: the arguments of the forward() call
    orch_out,          \* Orchestrator: what that forward() call did
    lw_in,             \* Weights: the checkpoint and config given to load_weights
    lw_out             \* Weights: what load_weights did with them

spliceVars == <<llm_inputs, merge_size, splice_out>>
rotVars    == <<seq_len_cached, freqs_cached, rot_last, rot_hist, max_requested, thr>>
capVars    == <<model_cls, q_type, q_inst>>
quantVars  == <<quant_cfgs, cls_mappings, quant_models, quant_last>>
visionVars == <<vt, vt_out>>
orchVars   == <<orch_in, orch_out>>
loadVars   == <<lw_in, lw_out>>
vars       ==
    <<spliceVars, rotVars, capVars, quantVars, visionVars, orchVars, loadVars>>

(***************************************************************************)
(* Bounds of the model.                                                    *)
(***************************************************************************)
MaxLen    == 3      \* longest prompt_token_ids
MaxImages == 2      \* most image objects in one request

\* Token ids other than the placeholder that the prompts are drawn from.
TextTokens == {1, 2}
\* (t, h, w) grids the image processor can report; h and w are multiples of
\* every merge size in MergeSizes, as smart_resize guarantees.
GridChoices == {<<1, 2, 2>>, <<2, 2, 2>>, <<1, 2, 4>>, <<1, 4, 4>>}
MergeSizes == {1, 2}
Prompts == {"None", "text"}

\* image_processor.vision_token_id (a configuration value; 99 in the examples)
vision_token_id == 99

--------------------------------------------------------------------------
(***************************************************************************)
(* Sequence helpers (Python list operations).                              *)
(***************************************************************************)
SeqsUpTo(S, n) == UNION {[1..k -> S] : k \in 0..n}

\* list.count(x)
Count(s, x) == Cardinality({i \in DOMAIN s : s[i] = x})

\* list.index(x, start), 0-based; the caller guarantees an occurrence
Index(s, x, start) ==
    (CHOOSE i \in (start + 1)..Len(s) :
        /\ s[i] = x
        /\ \A j \in (start + 1)..(i - 1) : s[j] # x) - 1

\* s[a:b], 0-based, half-open
Slice(s, a, b) == SubSeq(s, a + 1, b)

\* [x] * n
Repeat(x, n) == [i \in 1..n |-> x]

--------------------------------------------------------------------------
(***************************************************************************)
(* TokenSplicer: input_processor_for_qwen2_vl (qwen2_vl.py 541-609).       *)
(*                                                                         *)
(* multi_modal_data is None, a dict without the "image" key, or a dict     *)
(* whose "image" entry is a list of image objects.  An image object is     *)
(* written as the (t, h, w) grid the image processor reports for it, so    *)
(* processed_vision_inputs['vision_grid_thw'] is that list.                *)
(***************************************************************************)
MMNone    == [kind |-> "None", image_objects |-> <<>>]
MMNoImage == [kind |-> "no_image", image_objects |-> <<>>]
MMImage(objs) == [kind |-> "image", image_objects |-> objs]

MultiModalData ==
    {MMNone, MMNoImage} \cup {MMImage(o) : o \in SeqsUpTo(GridChoices, MaxImages)}

LLMInputs ==
    [prompt_token_ids : SeqsUpTo(TextTokens \cup {vision_token_id}, MaxLen),
     prompt : Prompts,
     multi_modal_data : MultiModalData]

\* line 551: multi_modal_data is None or "image" not in multi_modal_data
no_image_data(mm) == mm.kind \in {"None", "no_image"}

image_objects_never_empty(objs) == FALSE
\* line 565: not image_objects
image_objects_empty(objs) == objs = <<>>

count_matches_at_most(n_grid, img_num) == n_grid >= img_num
\* line 588: assert len(vision_grid_thw) == img_num
count_matches(n_grid, img_num) == n_grid = img_num

llm_vision_lens_no_t(thw, merge) == (thw[2] \div merge) * (thw[3] \div merge)
\* lines 596-600: llm_grid_t * llm_grid_h * llm_grid_w
llm_vision_lens(thw, merge) ==
    LET llm_grid_t == thw[1]
        llm_grid_h == thw[2] \div merge
        llm_grid_w == thw[3] \div merge
    IN  llm_grid_t * llm_grid_h * llm_grid_w

\* lines 590-603: the loop over image_idx, then the tail of the prompt
RECURSIVE splice_loop(_, _, _, _, _, _, _)
splice_loop(input_ids, vision_grid_thw, merge, img_num, image_idx, start, new_input_ids) ==
    IF image_idx >= img_num
    THEN new_input_ids \o Slice(input_ids, start, Len(input_ids))
    ELSE LET end == Index(input_ids, vision_token_id, start)
             n   == llm_vision_lens(vision_grid_thw[image_idx + 1], merge)
         IN  splice_loop(input_ids, vision_grid_thw, merge, img_num, image_idx + 1,
                         end + 1,
                         new_input_ids \o Slice(input_ids, start, end)
                                       \o Repeat(vision_token_id, n))

Returned(ids, prompt, mm) ==
    [status |-> "returned", prompt_token_ids |-> ids, prompt |-> prompt,
     multi_modal_data |-> mm]
Raised ==
    [status |-> "raised", prompt_token_ids |-> <<>>, prompt |-> "None",
     multi_modal_data |-> MMNone]
Pending ==
    [status |-> "pending", prompt_token_ids |-> <<>>, prompt |-> "None",
     multi_modal_data |-> MMNone]
MMProcessed(grid) == [kind |-> "processed", image_objects |-> grid]

\* lines 541-609
input_processor_for_qwen2_vl(inp, merge) ==
    LET multi_modal_data == inp.multi_modal_data IN
    IF no_image_data(multi_modal_data)
    THEN Returned(inp.prompt_token_ids, inp.prompt, multi_modal_data)
    ELSE
    LET image_objects == multi_modal_data.image_objects IN
    IF image_objects_empty(image_objects)
    THEN Returned(inp.prompt_token_ids, inp.prompt, MMNone)
    ELSE
    LET vision_grid_thw == image_objects
        input_ids == inp.prompt_token_ids
        img_num == Count(input_ids, vision_token_id)
    IN  IF ~count_matches(Len(vision_grid_thw), img_num)
        THEN Raised
        ELSE Returned(
                 splice_loop(input_ids, vision_grid_thw, merge, img_num, 0, 0, <<>>),
                 inp.prompt,
                 IF img_num > 0 THEN MMProcessed(vision_grid_thw) ELSE MMNone)

NoInputs ==
    [prompt_token_ids |-> <<>>, prompt |-> "None", multi_modal_data |-> MMNone]

--------------------------------------------------------------------------
(***************************************************************************)
(* RotaryPositionCache: Qwen2VisionRotaryEmbedding (qwen2_vl.py 273-300).  *)
(*                                                                         *)
(* forward(seqlen) is annotated seqlen: int, and its caller in this file,  *)
(* rot_pos_emb (lines 406-407), passes max_grid_size = grid_thw[:,1:].max()*)
(* which is a 0-dim tensor.  For an int, "seqlen *= 2" (line 285) rebinds  *)
(* update_freqs_cache's local name; for a tensor it multiplies in place,   *)
(* so the object forward() slices with at line 300 has doubled too.        *)
(***************************************************************************)
MaxSeqLen == 3      \* longest sequence length requested
ArgKinds == {"int", "tensor"}
Threads == {"A", "B"}

\* line 278 / 287-293: 1 / theta ** (arange(0, dim, 2) / dim) for an instance
\* with dim = 4 and the default theta = 10000: the values 1 and 1/100,
\* written in units of 1/10000.  Line 287 recomputes the same vector.
inv_freq == <<10000, 100>>

\* torch.arange(n): position p is at index p + 1
arange(n) == [k \in 1..n |-> k - 1]

\* torch.outer(seq, inv_freq), line 295
outer(seq, v) == [k \in 1..Len(seq) |-> [i \in 1..Len(v) |-> seq[k] * v[i]]]

needs_rebuild_when_different(seqlen, cached) == seqlen # cached
\* line 284: seqlen > self._seq_len_cached
needs_rebuild(seqlen, cached) == seqlen > cached

\* line 285: seqlen *= 2
grown(seqlen) == seqlen * 2

NoTable == [is_none |-> TRUE, rows |-> <<>>]
Table(rows) == [is_none |-> FALSE, rows |-> rows]

\* lines 283-296; gives the new cache fields and the value of the local
\* name seqlen when the method returns
update_freqs_cache(seqlen, len_cached, table) ==
    IF needs_rebuild(seqlen, len_cached)
    THEN LET seqlen2 == grown(seqlen)
             seq == arange(seqlen2)
             freqs == outer(seq, inv_freq)
         IN  [seq_len_cached |-> seqlen2, freqs_cached |-> Table(freqs),
              seqlen |-> seqlen2]
    ELSE [seq_len_cached |-> len_cached, freqs_cached |-> table, seqlen |-> seqlen]

\* The value forward()'s own name seqlen holds at line 300: an int argument
\* is untouched by the callee, a tensor argument was multiplied in place.
seqlen_at_return(n, kind, callee_seqlen) ==
    IF kind = "tensor" THEN callee_seqlen ELSE n

\* line 300: self._freqs_cached[:seqlen]; None is not subscriptable, and a
\* slice past the end stops at the end
slice_rows(table, seqlen) ==
    IF table.is_none
    THEN [status |-> "raised", rows |-> <<>>]
    ELSE [status |-> "returned",
          rows |-> SubSeq(table.rows, 1, IF seqlen < Len(table.rows)
                                         THEN seqlen ELSE Len(table.rows))]

NoCall ==
    [status |-> "none", n |-> 0, kind |-> "int", rows |-> <<>>,
     len_before |-> 0, freqs_before |-> NoTable]

IdleThread ==
    [pc |-> "idle", n |-> 0, kind |-> "int", seqlen |-> 0, len_seen |-> 0,
     rows_seen |-> 0, status |-> "none", rows |-> <<>>]

IdleThreads == [t \in Threads |-> IdleThread]

\* lines 298-300, one whole serialized call
Forward(n, kind) ==
    LET u == update_freqs_cache(n, seq_len_cached, freqs_cached)
        r == slice_rows(u.freqs_cached, seqlen_at_return(n, kind, u.seqlen))
    IN  /\ seq_len_cached' = u.seq_len_cached
        /\ freqs_cached' = u.freqs_cached
        /\ rot_last' = [status |-> r.status, n |-> n, kind |-> kind, rows |-> r.rows,
                        len_before |-> seq_len_cached, freqs_before |-> freqs_cached]
        /\ rot_hist' = IF r.status = "returned"
                       THEN rot_hist \cup {[n |-> n, rows |-> r.rows]}
                       ELSE rot_hist
        /\ max_requested' = IF n > max_requested THEN n ELSE max_requested
        /\ UNCHANGED thr

--------------------------------------------------------------------------
(***************************************************************************)
(* CapabilityRegistry: the predicates of interfaces.py.                    *)
(*                                                                         *)
(* A model class is the kind of value it gives each inspected attribute,   *)
(* the protocols it names among its bases, and what the external           *)
(* is_pooling_model says of it.  An instance has no attributes of its own, *)
(* so it shows the attributes of its class.                                *)
(*                                                                         *)
(* isinstance(x, P) for a runtime_checkable Protocol P holds when type(x)  *)
(* inherits from P, or when x has every member of P, a method member not   *)
(* being None.  It looks at no value: a marker set to False is a member.   *)
(***************************************************************************)
Markers ==
    {"supports_multimodal", "supports_lora", "supports_pp", "has_inner_state",
     "is_attention_free", "is_hybrid", "has_noops", "supports_cross_encoding",
     "supports_transcription", "supports_v0_only"}
DataAttrs == {"packed_modules_mapping", "embedding_modules", "embedding_padding_modules"}
MethodAttrs ==
    {"get_multimodal_embeddings", "get_language_model", "get_input_embeddings",
     "make_empty_intermediate_tensors"}
AttrNames == Markers \cup DataAttrs \cup MethodAttrs \cup {"forward"}

\* The kinds of value a class can give an attribute.  "function_it" is a
\* function whose parameters include intermediate_tensors.
Allowed(a) ==
    IF a \in Markers THEN {"absent", "true", "false"}
    ELSE IF a \in DataAttrs THEN {"absent", "value"}
    ELSE IF a \in MethodAttrs THEN {"absent", "none", "function"}
    ELSE {"absent", "none", "value", "function", "function_it"}

\* The members of each protocol class, and those of them that are methods.
ProtocolMembers ==
    [SupportsMultiModal |->
        {"supports_multimodal", "get_multimodal_embeddings", "get_language_model",
         "get_input_embeddings"},                                   \* lines 33-93
     SupportsMultiModalType |-> {"supports_multimodal"},            \* lines 98-100
     SupportsLoRA |->
        {"supports_lora", "embedding_modules", "embedding_padding_modules",
         "packed_modules_mapping"},                                 \* lines 123-139
     SupportsLoRAType |->
        {"supports_lora", "packed_modules_mapping", "embedding_modules",
         "embedding_padding_modules"},                              \* lines 144-150
     SupportsPP |->
        {"supports_pp", "make_empty_intermediate_tensors", "forward"},  \* 201-233
     SupportsPPType |->
        {"supports_pp", "make_empty_intermediate_tensors", "forward"},  \* 238-255
     HasInnerState |-> {"has_inner_state"},                         \* 316-330
     HasInnerStateType |-> {"has_inner_state"},
     IsAttentionFree |-> {"is_attention_free"},                     \* 352-367
     IsAttentionFreeType |-> {"is_attention_free"},
     IsHybrid |-> {"is_hybrid"},                                    \* 389-404
     IsHybridType |-> {"is_hybrid"},
     HasNoOps |-> {"has_noops"},                                    \* 426-433
     HasNoOpsType |-> {"has_noops"},
     SupportsCrossEncoding |-> {"supports_cross_encoding"},         \* 455-459
     SupportsTranscription |-> {"supports_transcription"},          \* 519-523
     SupportsV0Only |-> {"supports_v0_only"}]                       \* 546-550

ProtocolNames == DOMAIN ProtocolMembers
\* The protocols a model class can name among its bases.
BaseProtocols ==
    {"SupportsMultiModal", "SupportsLoRA", "SupportsPP", "HasInnerState",
     "IsAttentionFree", "IsHybrid", "HasNoOps", "SupportsCrossEncoding",
     "SupportsTranscription", "SupportsV0Only"}

NoAttrs == [a \in AttrNames |-> "absent"]
PlainClass == [attrs |-> NoAttrs, bases |-> {}, pooling |-> FALSE]

\* The classes that declare (only) members of protocol P, with or without P
\* among their bases; a class that inherits P has every member of P.
ClassesOf(P) ==
    LET M == ProtocolMembers[P]
        Decls == {g \in [M -> UNION {Allowed(a) : a \in M}] :
                      \A a \in M : g[a] \in Allowed(a)}
    IN  {[attrs |-> [a \in AttrNames |-> IF a \in M THEN g[a] ELSE "absent"],
          bases |-> b,
          pooling |-> pl] :
            g \in Decls, b \in {{}, {P}},
            pl \in IF P = "SupportsCrossEncoding" THEN BOOLEAN ELSE {FALSE}}

ModelClasses ==
    {c \in UNION {ClassesOf(P) : P \in BaseProtocols} :
        \A P \in c.bases : \A a \in ProtocolMembers[P] : c.attrs[a] # "absent"}

Forms == {"type", "instance"}

\* hasattr(model, attr)
hasattr(m, a) == m.attrs[a] # "absent"
\* bool(getattr(model, attr, False))
truthy(m, a) == m.attrs[a] \notin {"absent", "none", "false"}
\* callable(getattr(model, attr, None))
is_callable(m, a) == m.attrs[a] \in {"function", "function_it"}

\* isinstance(model, P) for a runtime_checkable Protocol P.  A class object
\* is an instance of type, which inherits from no protocol.
isinstance_protocol(m, form, P) ==
    \/ form = "instance" /\ P \in m.bases
    \/ \A a \in ProtocolMembers[P] :
          /\ hasattr(m, a)
          /\ (a \in MethodAttrs \cup {"forward"} => m.attrs[a] # "none")

\* `if isinstance(model, type): return isinstance(model, T)` and then
\* `return isinstance(model, I)`
check_protocol(m, form, T, I) ==
    IF form = "type" THEN isinstance_protocol(m, form, T)
    ELSE isinstance_protocol(m, form, I)

\* vllm.utils.supports_kw(model_forward, "intermediate_tensors")
supports_kw(m, a) == m.attrs[a] = "function_it"
\* interfaces_base.is_pooling_model(model)
is_pooling_model(m, form) == m.pooling

Result(r, w) == [result |-> r, warnings |-> w]

\* lines 114-120
supports_multimodal(m, form) ==
    Result(check_protocol(m, form, "SupportsMultiModalType", "SupportsMultiModal"), {})

\* lines 194-198
supports_lora_protocol(m, form) ==
    check_protocol(m, form, "SupportsLoRAType", "SupportsLoRA")

\* lines 163-191
supports_lora(m, form) ==
    LET result == supports_lora_protocol(m, form)
        lora_attrs == {"packed_modules_mapping", "embedding_modules",
                       "embedding_padding_modules"}
        missing_attrs == {a \in lora_attrs : ~hasattr(m, a)}
        warnings ==
            IF result THEN {}
            ELSE IF truthy(m, "supports_lora")
                 THEN (IF missing_attrs # {} THEN {"lora_missing_attrs"} ELSE {})
                 ELSE (IF missing_attrs = {} THEN {"lora_flag_unset"} ELSE {})
    IN  Result(result, warnings)

\* lines 301-305
supports_pp_attributes(m, form) ==
    check_protocol(m, form, "SupportsPPType", "SupportsPP")

\* lines 308-313
supports_pp_inspect(m, form) ==
    IF ~is_callable(m, "forward") THEN FALSE ELSE supports_kw(m, "forward")

pp_result_attributes_only(supports_attributes, supports_inspect) == supports_attributes
\* line 298: return supports_attributes and supports_inspect
pp_result(supports_attributes, supports_inspect) ==
    supports_attributes /\ supports_inspect

\* lines 268-298
supports_pp(m, form) ==
    LET supports_attributes == supports_pp_attributes(m, form)
        supports_inspect == supports_pp_inspect(m, form)
        pp_attrs == {"make_empty_intermediate_tensors"}
        missing_attrs == {a \in pp_attrs : ~hasattr(m, a)}
        w1 == IF supports_attributes /\ ~supports_inspect
              THEN {"pp_no_intermediate_tensors"} ELSE {}
        w2 == IF supports_attributes THEN {}
              ELSE IF truthy(m, "supports_pp")
                   THEN (IF missing_attrs # {} THEN {"pp_missing_attrs"} ELSE {})
                   ELSE (IF missing_attrs = {} THEN {"pp_flag_unset"} ELSE {})
    IN  Result(pp_result(supports_attributes, supports_inspect), w1 \cup w2)

\* lines 343-349
has_inner_state(m, form) ==
    Result(check_protocol(m, form, "HasInnerStateType", "HasInnerState"), {})
\* lines 380-386
is_attention_free(m, form) ==
    Result(check_protocol(m, form, "IsAttentionFreeType", "IsAttentionFree"), {})
\* lines 417-423
is_hybrid(m, form) ==
    Result(check_protocol(m, form, "IsHybridType", "IsHybrid"), {})
\* lines 446-452
has_noops(m, form) ==
    Result(check_protocol(m, form, "HasNoOpsType", "HasNoOps"), {})
\* lines 473-486
supports_cross_encoding(m, form) ==
    Result(is_pooling_model(m, form)
             /\ check_protocol(m, form, "SupportsCrossEncoding", "SupportsCrossEncoding"),
           {})
\* lines 537-543
supports_transcription(m, form) ==
    Result(check_protocol(m, form, "SupportsTranscription", "SupportsTranscription"), {})
\* lines 563-569
supports_v0_only(m, form) ==
    Result(check_protocol(m, form, "SupportsV0Only", "SupportsV0Only"), {})

Predicates ==
    {"supports_multimodal", "supports_lora", "supports_pp", "has_inner_state",
     "is_attention_free", "is_hybrid", "has_noops", "supports_cross_encoding",
     "supports_transcription", "supports_v0_only"}

\* The call pred(model) with model the class (form "type") or an instance.
CallPredicate(pred, m, form) ==
    CASE pred = "supports_multimodal" -> supports_multimodal(m, form)
      [] pred = "supports_lora" -> supports_lora(m, form)
      [] pred = "supports_pp" -> supports_pp(m, form)
      [] pred = "has_inner_state" -> has_inner_state(m, form)
      [] pred = "is_attention_free" -> is_attention_free(m, form)
      [] pred = "is_hybrid" -> is_hybrid(m, form)
      [] pred = "has_noops" -> has_noops(m, form)
      [] pred = "supports_cross_encoding" -> supports_cross_encoding(m, form)
      [] pred = "supports_transcription" -> supports_transcription(m, form)
      [] pred = "supports_v0_only" -> supports_v0_only(m, form)

NoQuery == [pred |-> "none", result |-> FALSE, warnings |-> {}]
Answer(pred, r) == [pred |-> pred, result |-> r.result, warnings |-> r.warnings]


--------------------------------------------------------------------------
(***************************************************************************)
(* SupportsQuant (interfaces.py 489-516).                                  *)
(*                                                                         *)
(* A QuantizationConfig is an object with an identity; quant_cfgs holds    *)
(* the packed_modules_mapping dict of each.  A dict is written as a        *)
(* function from the keys to a value or "absent"; the values stand for the *)
(* lists of module names.  A constructor argument is a VllmConfig (with    *)
(* its quant_config field, a reference or None), a QuantizationConfig (a   *)
(* reference), None, or a value of any other type.                         *)
(***************************************************************************)
MaxArgs == 3        \* most positional arguments of a construction
MaxModels == 3      \* most models constructed on shared configs

PackedKeys == {"qkv_proj", "gate_up_proj"}
PackedVals == {"a", "b", "c"}
ConfigIds == {"q1", "q2"}
QuantClasses == {"ModelA", "ModelB", "ModelPlain"}

EmptyMapping == [k \in PackedKeys |-> "absent"]

\* line 492 and the subclasses' own declarations; ModelPlain declares none
\* and inherits the empty dict
DeclaredMappings ==
    [ModelA |-> [qkv_proj |-> "a", gate_up_proj |-> "absent"],
     ModelB |-> [qkv_proj |-> "b", gate_up_proj |-> "a"],
     ModelPlain |-> EmptyMapping]

\* configs as their constructors leave them, and configs that already
\* carry an entry
FreshConfigs == [c \in ConfigIds |-> EmptyMapping]
OriginalConfigs ==
    [q1 |-> [qkv_proj |-> "c", gate_up_proj |-> "absent"], q2 |-> EmptyMapping]
InitialConfigs == {FreshConfigs, OriginalConfigs}

OtherArg == [kind |-> "other", ref |-> "None"]
NoneArg == [kind |-> "None", ref |-> "None"]
VllmConfig(ref) == [kind |-> "VllmConfig", ref |-> ref]
QuantizationConfig(id) == [kind |-> "QuantizationConfig", ref |-> id]
ArgValues ==
    {OtherArg, NoneArg, VllmConfig("None"), VllmConfig("q1"),
     QuantizationConfig("q1"), QuantizationConfig("q2")}
\* **kwargs, in the order the keywords were given
KwargLists == {<<>>} \cup {<<v>> : v \in ArgValues}

args_values_kwargs_first(args, kwargs) == kwargs \o args
\* line 508: list(args) + list(kwargs.values())
args_values(args, kwargs) == args \o kwargs

\* lines 509-516: the loop over args_values from index i (1-based)
RECURSIVE find_loop(_, _)
find_loop(values, i) ==
    IF i > Len(values) THEN "None"
    ELSE IF values[i].kind = "VllmConfig" THEN values[i].ref
    ELSE IF values[i].kind = "QuantizationConfig" THEN values[i].ref
    ELSE find_loop(values, i + 1)

\* the last configuration argument instead of the first
RECURSIVE find_loop_last(_, _)
find_loop_last(values, i) ==
    IF i < 1 THEN "None"
    ELSE IF values[i].kind \in {"VllmConfig", "QuantizationConfig"} THEN values[i].ref
    ELSE find_loop_last(values, i - 1)
find_quant_config_last(args, kwargs) ==
    find_loop_last(args_values(args, kwargs), Len(args_values(args, kwargs)))
\* lines 504-516
find_quant_config(args, kwargs) == find_loop(args_values(args, kwargs), 1)

dict_update_keep_existing(target, source) ==
    [k \in PackedKeys |-> IF target[k] # "absent" THEN target[k] ELSE source[k]]
\* dict.update(source), line 500
dict_update(target, source) ==
    [k \in PackedKeys |-> IF source[k] # "absent" THEN source[k] ELSE target[k]]

NoConstruction ==
    [status |-> "none", cls |-> "ModelPlain", args |-> <<>>, kwargs |-> <<>>,
     quant_config |-> "None"]

\* lines 495-502: cls(*args, **kwargs)
SupportsQuant_new(cls, args, kwargs) ==
    LET quant_config == find_quant_config(args, kwargs) IN
    /\ quant_cfgs' =
          IF quant_config # "None"
          THEN [quant_cfgs EXCEPT
                   ![quant_config] = dict_update(@, cls_mappings[cls])]
          ELSE quant_cfgs
    /\ cls_mappings' = cls_mappings
    /\ quant_models' = Append(quant_models, [cls |-> cls, quant_config |-> quant_config])
    /\ quant_last' = [status |-> "constructed", cls |-> cls, args |-> args,
                      kwargs |-> kwargs, quant_config |-> quant_config]

--------------------------------------------------------------------------
(***************************************************************************)
(* VisionTransformerPipeline: Qwen2VisionTransformer (qwen2_vl.py 303-440).*)
(*                                                                         *)
(* grid_thw is the list of (t, h, w) rows, one per image.  A tensor is     *)
(* written as a function of its 0-based indices, a flattened tensor as a   *)
(* sequence.  The values of the patches are left out: the model keeps the  *)
(* position ids, the sequence boundaries and the number of rows.           *)
(***************************************************************************)
PosTypes == {"abs", "2drope", "learned"}

NotConstructed == [status |-> "none", pos_type |-> "2drope", spatial_merge_size |-> 2]
NoVisionCall ==
    [status |-> "none", grid_thw |-> <<>>, cu_seqlens |-> <<>>, pos_ids |-> <<>>,
     rows |-> 0]

pos_type_any(pos_type) == TRUE
\* lines 336-343: the branches of __init__ that do not raise
pos_type_supported(pos_type) == pos_type \in {"abs", "2drope"}

\* lines 304-361
Qwen2VisionTransformer_init(pos_type, spatial_merge_size) ==
    IF pos_type_supported(pos_type)
    THEN [status |-> "constructed", pos_type |-> pos_type,
          spatial_merge_size |-> spatial_merge_size]
    ELSE [status |-> "raised", pos_type |-> pos_type,
          spatial_merge_size |-> spatial_merge_size]

\* torch.arange(h).unsqueeze(1).expand(-1, w), line 394
hpos_grid(h, w) == [r \in 0..(h - 1), c \in 0..(w - 1) |-> r]
\* torch.arange(w).unsqueeze(0).expand(h, -1), line 395
wpos_grid(h, w) == [r \in 0..(h - 1), c \in 0..(w - 1) |-> c]

\* .reshape(h // m, m, w // m, m), lines 396-399: row-major order is kept
reshape4(M, h, w, m) ==
    [a \in 0..((h \div m) - 1), b \in 0..(m - 1),
     c \in 0..((w \div m) - 1), d \in 0..(m - 1) |->
        LET k == ((a * m + b) * (w \div m) + c) * m + d
        IN  M[k \div w, k % w]]

\* the tensor left in its own order: flattened as (h // m, w // m, m, m) it
\* reads the source row by row
permute_none(T, h, w, m) ==
    [a \in 0..((h \div m) - 1), c \in 0..((w \div m) - 1),
     b \in 0..(m - 1), d \in 0..(m - 1) |->
        LET k == ((a * (w \div m) + c) * m + b) * m + d
        IN  T[k \div (m * w), (k \div w) % m, (k \div m) % (w \div m), k % m]]
\* .permute(0, 2, 1, 3), line 400: the result's index (a, c, b, d) reads
\* the source's (a, b, c, d)
permute_0213(T, h, w, m) ==
    [a \in 0..((h \div m) - 1), c \in 0..((w \div m) - 1),
     b \in 0..(m - 1), d \in 0..(m - 1) |-> T[a, b, c, d]]

\* .flatten() of a tensor of shape (n0, n1, n2, n3)
flatten4(T, n0, n1, n2, n3) ==
    [i \in 1..(n0 * n1 * n2 * n3) |->
        LET k == i - 1
        IN  T[k \div (n1 * n2 * n3), (k \div (n2 * n3)) % n1, (k \div n3) % n2, k % n3]]

\* lines 394-403 for one image: the (h, w) position of every patch of a frame
frame_pos_ids(h, w, m) ==
    LET hp == flatten4(permute_0213(reshape4(hpos_grid(h, w), h, w, m), h, w, m),
                       h \div m, w \div m, m, m)
        wp == flatten4(permute_0213(reshape4(wpos_grid(h, w), h, w, m), h, w, m),
                       h \div m, w \div m, m, m)
    IN  [i \in 1..(h * w) |-> <<hp[i], wp[i]>>]

\* tensor.repeat(t, 1), line 404
RECURSIVE repeat_rows(_, _)
repeat_rows(s, t) == IF t = 0 THEN <<>> ELSE s \o repeat_rows(s, t - 1)

\* lines 392-405: the loop over grid_thw and torch.cat
RECURSIVE rot_pos_ids(_, _)
rot_pos_ids(grid_thw, m) ==
    IF grid_thw = <<>> THEN <<>>
    ELSE repeat_rows(frame_pos_ids(grid_thw[1][2], grid_thw[1][3], m), grid_thw[1][1])
            \o rot_pos_ids(Tail(grid_thw), m)

\* grid_thw[:, 1:].max(), line 406
RECURSIVE max_grid_size(_)
max_grid_size(grid_thw) ==
    IF grid_thw = <<>> THEN 0
    ELSE LET rest == max_grid_size(Tail(grid_thw))
             here == IF grid_thw[1][2] > grid_thw[1][3]
                     THEN grid_thw[1][2] ELSE grid_thw[1][3]
         IN  IF here > rest THEN here ELSE rest

\* every image counted once, whatever its t
repeat_interleave_once(grid_thw) ==
    [i \in 1..Len(grid_thw) |-> grid_thw[i][2] * grid_thw[i][3]]
\* torch.repeat_interleave(grid_thw[:, 1] * grid_thw[:, 2], grid_thw[:, 0]),
\* lines 432-434
RECURSIVE repeat_interleave(_)
repeat_interleave(grid_thw) ==
    IF grid_thw = <<>> THEN <<>>
    ELSE Repeat(grid_thw[1][2] * grid_thw[1][3], grid_thw[1][1])
            \o repeat_interleave(Tail(grid_thw))

\* .cumsum(dim=0, dtype=torch.int32), line 434; the sums of the grids
\* modelled here are far below 2^31
RECURSIVE cumsum(_, _)
cumsum(s, acc) ==
    IF s = <<>> THEN <<>> ELSE <<acc + s[1]>> \o cumsum(Tail(s), acc + s[1])

\* F.pad(cu_seqlens, (1, 0), 'constant', 0), line 435
pad_front(s) == <<0>> \o s

\* the whole batch as one window
cu_seqlens_one_window(grid_thw) ==
    <<0, cumsum(repeat_interleave(grid_thw), 0)[Len(repeat_interleave(grid_thw))]>>
\* lines 432-435
compute_cu_seqlens(grid_thw) == pad_front(cumsum(repeat_interleave(grid_thw), 0))

\* Qwen2VisionPatchMerger.forward, lines 263-271: x.view(-1, hidden_size)
\* with hidden_size = context_dim * 2 ** 2 joins every four rows
merger_rows(cu_seqlens) == cu_seqlens[Len(cu_seqlens)] \div (2 * 2)

\* lines 411-440 on a constructed instance, the rotary table aside
vision_forward(v, grid_thw) ==
    IF v.pos_type \notin {"abs", "2drope"}
    THEN [NoVisionCall EXCEPT !.status = "unsupported_pos_type", !.grid_thw = grid_thw]
    ELSE IF grid_thw = <<>>
    THEN [NoVisionCall EXCEPT !.status = "raised"]
    ELSE LET cu == compute_cu_seqlens(grid_thw)
         IN  [status |-> "returned", grid_thw |-> grid_thw, cu_seqlens |-> cu,
              pos_ids |-> IF v.pos_type = "2drope"
                          THEN rot_pos_ids(grid_thw, v.spatial_merge_size)
                          ELSE <<>>,
              rows |-> merger_rows(cu)]

--------------------------------------------------------------------------
(***************************************************************************)
(* MultimodalOrchestrator: Qwen2VLForConditionalGeneration.forward         *)
(* (qwen2_vl.py 645-686).                                                  *)
(*                                                                         *)
(* pixel_values is None or a tensor of size0 rows; positions is its shape   *)
(* (ndim and size(0)); config.rope_scaling is missing from the config, is  *)
(* None, or is a dict without "type", with type "mrope" or with another    *)
(* type.  The backbone (self.model) and the embedding are external: the    *)
(* model records the arguments they are called with.                       *)
(***************************************************************************)
OrchTokens == {1, vision_token_id}
RopeScalings == {"absent", "None", "no_type", "mrope", "linear"}
PositionShapes ==
    {[ndim |-> 1, size0 |-> 3], [ndim |-> 1, size0 |-> 5],
     [ndim |-> 2, size0 |-> 3], [ndim |-> 2, size0 |-> 1]}

NoneTensor == [is_none |-> TRUE, size0 |-> 0]
Pixels(size0) == [is_none |-> FALSE, size0 |-> size0]
NoneIds == [is_none |-> TRUE, ids |-> <<>>]
Ids(ids) == [is_none |-> FALSE, ids |-> ids]
NoneEmbeds == [is_none |-> TRUE, input_ids |-> <<>>, image_rows |-> 0]
\* embed_tokens(input_ids) with the rows at the vision tokens overwritten by
\* the image_rows rows of image_embeds
FusedEmbeds(input_ids, image_rows) ==
    [is_none |-> FALSE, input_ids |-> input_ids, image_rows |-> image_rows]

\* pixel_values.size(0) for the patches of grid_thw
RECURSIVE patch_rows(_)
patch_rows(grid_thw) ==
    IF grid_thw = <<>> THEN 0
    ELSE grid_thw[1][1] * grid_thw[1][2] * grid_thw[1][3] + patch_rows(Tail(grid_thw))

ForwardArgs ==
    {[input_ids |-> ids, positions |-> pos, pixel_values |-> pv.pixel_values,
      vision_grid_thw |-> pv.vision_grid_thw, rope_scaling |-> rs] :
        ids \in SeqsUpTo(OrchTokens, MaxLen),
        pos \in PositionShapes,
        pv \in {[pixel_values |-> NoneTensor, vision_grid_thw |-> <<>>]}
                 \cup {[pixel_values |-> Pixels(patch_rows(g)), vision_grid_thw |-> g] :
                          g \in SeqsUpTo(GridChoices, MaxImages)},
        rs \in RopeScalings}

NoForwardArgs ==
    [input_ids |-> <<>>, positions |-> [ndim |-> 1, size0 |-> 0],
     pixel_values |-> NoneTensor, vision_grid_thw |-> <<>>, rope_scaling |-> "absent"]
NoForwardCall ==
    [status |-> "none", error |-> "none", visual_calls |-> 0, backbone_calls |-> 0,
     input_ids |-> NoneIds, inputs_embeds |-> NoneEmbeds,
     positions |-> [ndim |-> 1, size0 |-> 0]]

include_vision_when_present(pixel_values) == ~pixel_values.is_none
\* line 657: pixel_values is not None and pixel_values.size(0) > 0
include_vision(pixel_values) == ~pixel_values.is_none /\ pixel_values.size0 > 0

\* line 660: getattr(self.config, "rope_scaling", {}).get("type", None);
\* None has no .get
rope_type(rope_scaling) ==
    CASE rope_scaling = "absent" -> "None"
      [] rope_scaling = "None" -> "AttributeError"
      [] rope_scaling = "no_type" -> "None"
      [] rope_scaling = "mrope" -> "mrope"
      [] rope_scaling = "linear" -> "linear"

positions_three_rows_any_ndim(positions) == positions.size0 = 3
\* line 661: positions.ndim == 2 and positions.size(0) == 3
positions_ok(positions) == positions.ndim = 2 /\ positions.size0 = 3

\* line 673: inputs_embeds[mask, :] = image_embeds; the rows assigned must
\* be as many as the mask selects, or a single row, which is broadcast
fuse_rows_ok(image_rows, mask_count) == image_rows = mask_count \/ image_rows = 1

Aborted(error, visual_calls) ==
    [NoForwardCall EXCEPT !.status = "raised", !.error = error,
                          !.visual_calls = visual_calls]

\* lines 679-685: self.model(input_ids=..., positions=..., inputs_embeds=...)
BackboneCalled(input_ids, inputs_embeds, positions, visual_calls) ==
    [status |-> "returned", error |-> "none", visual_calls |-> visual_calls,
     backbone_calls |-> 1, input_ids |-> input_ids, inputs_embeds |-> inputs_embeds,
     positions |-> positions]

\* lines 645-686, given what self.visual returned
orchestrator_forward(a, visual_out) ==
    IF include_vision(a.pixel_values)
    THEN IF rope_type(a.rope_scaling) = "AttributeError"
         THEN Aborted("AttributeError", 0)
         ELSE IF rope_type(a.rope_scaling) = "mrope" /\ ~positions_ok(a.positions)
         THEN Aborted("AssertionError", 0)
         ELSE IF visual_out.status # "returned"
         THEN Aborted("visual", 1)
         ELSE IF ~fuse_rows_ok(visual_out.rows, Count(a.input_ids, vision_token_id))
         THEN Aborted("RuntimeError", 1)
         ELSE BackboneCalled(NoneIds, FusedEmbeds(a.input_ids, visual_out.rows),
                             a.positions, 1)
    ELSE BackboneCalled(Ids(a.input_ids), NoneEmbeds, a.positions, 0)

--------------------------------------------------------------------------
(***************************************************************************)
(* Weight loading: Qwen2VLForConditionalGeneration.load_weights            *)
(* (qwen2_vl.py 702-743).                                                  *)
(*                                                                         *)
(* A parameter name is the sequence of its dot-separated components.  A    *)
(* one-component pattern is "in" a name when it is a substring of one of   *)
(* the components, a longer pattern when its components occur next to each *)
(* other: this is Python's substring test over the components used here,   *)
(* where "v_proj" is part of "qkv_proj" and "up_proj" of "gate_up_proj".   *)
(* A tensor is known by the checkpoint name it came under and by its       *)
(* layout.  The shard ids 1 and 0 are written "1" and "0".  The loaders of *)
(* the parameters are external: the model records the calls made to them.  *)
(***************************************************************************)
MaxWeights == 2     \* most pairs the weight iterator yields

AttnPrefix == <<"model", "layers", "self_attn">>
MlpPrefix == <<"model", "layers", "mlp">>
VisualAttnPrefix == <<"visual", "blocks", "attn">>

\* the names the weight iterator may yield: those of a checkpoint of this
\* architecture (one layer of each), one of a checkpoint saved with the
\* projections already fused, and one the model has no parameter for
CheckpointNames ==
    {AttnPrefix \o <<"qkv_proj", "weight">>, AttnPrefix \o <<"k_scale">>} \cup
    {AttnPrefix \o <<p, "weight">> : p \in {"q_proj", "k_proj", "v_proj", "o_proj"}}
    \cup {AttnPrefix \o <<p, "bias">> : p \in {"q_proj", "k_proj", "v_proj"}}
    \cup {AttnPrefix \o <<"rotary_emb", "inv_freq">>}
    \cup {MlpPrefix \o <<p, "weight">> : p \in {"gate_proj", "up_proj", "down_proj"}}
    \cup {<<"model", "embed_tokens", "weight">>, <<"model", "norm", "weight">>,
          <<"lm_head", "weight">>}
    \cup {VisualAttnPrefix \o <<"qkv", "weight">>, VisualAttnPrefix \o <<"qkv", "bias">>,
          VisualAttnPrefix \o <<"proj", "weight">>,
          <<"visual", "merger", "mlp", "weight">>}

\* dict(self.named_parameters(remove_duplicate=False)), line 711: the
\* runtime layout, with the fused projections
params_dict ==
    {AttnPrefix \o <<"qkv_proj", "weight">>, AttnPrefix \o <<"qkv_proj", "bias">>,
     AttnPrefix \o <<"o_proj", "weight">>,
     MlpPrefix \o <<"gate_up_proj", "weight">>, MlpPrefix \o <<"down_proj", "weight">>,
     <<"model", "embed_tokens", "weight">>, <<"model", "norm", "weight">>,
     <<"lm_head", "weight">>,
     VisualAttnPrefix \o <<"qkv", "weight">>, VisualAttnPrefix \o <<"qkv", "bias">>,
     VisualAttnPrefix \o <<"proj", "weight">>, <<"visual", "merger", "mlp", "weight">>}

\* the weight iterator: pairs with distinct names, in any order
RECURSIVE DistinctSeqs(_, _)
DistinctSeqs(S, n) ==
    IF n = 0 THEN {<<>>}
    ELSE {<<>>} \cup {<<x>> \o s : x \in S, s \in DistinctSeqs(S, n - 1)}
Checkpoints ==
    {[weights |-> w, tie_word_embeddings |-> tie] :
        w \in {s \in DistinctSeqs(CheckpointNames, MaxWeights) :
                  \A i, j \in DOMAIN s : s[i] = s[j] => i = j},
        tie \in BOOLEAN}

Entry(param_name, weight_name, shard_id) ==
    [param_name |-> param_name, weight_name |-> weight_name, shard_id |-> shard_id]
stacked_params_mapping_swapped ==
    <<Entry("qkv_proj", "q_proj", "q"), Entry("qkv_proj", "k_proj", "k"),
      Entry("qkv_proj", "v_proj", "v"), Entry("gate_up_proj", "up_proj", "0"),
      Entry("gate_up_proj", "gate_proj", "1")>>
\* lines 703-710
stacked_params_mapping ==
    <<Entry("qkv_proj", "q_proj", "q"), Entry("qkv_proj", "k_proj", "k"),
      Entry("qkv_proj", "v_proj", "v"), Entry("gate_up_proj", "up_proj", "1"),
      Entry("gate_up_proj", "gate_proj", "0")>>

\* old in component, for one component of a name
part_of(old, component) ==
    \/ component = old
    \/ old = "v_proj" /\ component = "qkv_proj"
    \/ old = "up_proj" /\ component = "gate_up_proj"
\* component.replace(old, new)
component_replace(component, old, new) ==
    IF component = old THEN new
    ELSE IF old = "v_proj" /\ component = "qkv_proj" THEN "qk" \o new
    ELSE IF old = "up_proj" /\ component = "gate_up_proj" THEN "gate_" \o new
    ELSE component
\* pattern in name, lines 713-718 and 726-733
name_contains(name, pattern) ==
    IF Len(pattern) = 1
    THEN \E i \in DOMAIN name : part_of(pattern[1], name[i])
    ELSE \E i \in 1..(Len(name) - Len(pattern) + 1) :
            SubSeq(name, i, i + Len(pattern) - 1) = pattern
\* name.replace(old, new), line 720
name_replace(name, old, new) ==
    [i \in DOMAIN name |-> component_replace(name[i], old, new)]

\* lines 717-719: the first entry from k on whose weight_name is in name,
\* 0 when the loop runs out (the for ... else)
RECURSIVE first_stacked(_, _)
first_stacked(name, k) ==
    IF k > Len(stacked_params_mapping) THEN 0
    ELSE IF name_contains(name, <<stacked_params_mapping[k].weight_name>>) THEN k
    ELSE first_stacked(name, k + 1)

\* lines 726-739: the head-interleave transpose of the vision qkv tensors
loaded_layout(name) ==
    IF name_contains(name, <<"visual">>) /\ name_contains(name, <<"qkv", "weight">>)
    THEN "head_interleaved_weight"
    ELSE IF name_contains(name, <<"visual">>) /\ name_contains(name, <<"qkv", "bias">>)
    THEN "head_interleaved_bias"
    ELSE "as_loaded"

\* lines 713-716
skipped(name, tie_word_embeddings) ==
    \/ name_contains(name, <<"rotary_emb", "inv_freq">>)
    \/ tie_word_embeddings /\ name_contains(name, <<"lm_head", "weight">>)

LoaderCall(param, weight, layout, shard_id) ==
    [param |-> param, weight |-> weight, layout |-> layout, shard_id |-> shard_id]

\* lines 717-743 for one pair that is not skipped: the loader call made, or
\* KeyError when params_dict has no such name
load_one(name) ==
    LET k == first_stacked(name, 1)
        target == IF k = 0 THEN name
                  ELSE name_replace(name, stacked_params_mapping[k].weight_name,
                                    stacked_params_mapping[k].param_name)
    IN  IF target \notin params_dict
        THEN [ok |-> FALSE, call |-> LoaderCall(target, name, "as_loaded", "none")]
        ELSE IF k = 0
        THEN [ok |-> TRUE, call |-> LoaderCall(target, name, loaded_layout(name), "none")]
        ELSE [ok |-> TRUE,
              call |-> LoaderCall(target, name, "as_loaded",
                                  stacked_params_mapping[k].shard_id)]

NoCheckpoint == [weights |-> <<>>, tie_word_embeddings |-> FALSE]
NotLoaded == [status |-> "none", calls |-> <<>>]

\* lines 712-743: the loop over the weight iterator from pair i on
RECURSIVE load_loop(_, _, _, _)
load_loop(weights, tie_word_embeddings, i, calls) ==
    IF i > Len(weights) THEN [status |-> "returned", calls |-> calls]
    ELSE IF skipped(weights[i], tie_word_embeddings)
    THEN load_loop(weights, tie_word_embeddings, i + 1, calls)
    ELSE LET r == load_one(weights[i])
         IN  IF r.ok
             THEN load_loop(weights, tie_word_embeddings, i + 1, Append(calls, r.call))
             ELSE [status |-> "KeyError", calls |-> calls]

\* lines 702-743
load_weights(c) == load_loop(c.weights, c.tie_word_embeddings, 1, <<>>)

--------------------------------------------------------------------------
(***************************************************************************)
(* SpecSplicer: one request through the input processor.                   *)
(***************************************************************************)
InitSplicer ==
    /\ llm_inputs \in LLMInputs
    /\ merge_size \in MergeSizes
    /\ splice_out = Pending
    /\ seq_len_cached = 0
    /\ freqs_cached = NoTable
    /\ rot_last = NoCall
    /\ rot_hist = {}
    /\ max_requested = 0
    /\ thr = IdleThreads
    /\ model_cls = PlainClass
    /\ q_type = NoQuery
    /\ q_inst = NoQuery
    /\ quant_cfgs = FreshConfigs
    /\ cls_mappings = DeclaredMappings
    /\ quant_models = <<>>
    /\ quant_last = NoConstruction
    /\ vt = NotConstructed
    /\ vt_out = NoVisionCall
    /\ orch_in = NoForwardArgs
    /\ orch_out = NoForwardCall
    /\ lw_in = NoCheckpoint
    /\ lw_out = NotLoaded

\* The engine calls the registered input processor once per request.
ProcessInput ==
    /\ splice_out.status = "pending"
    /\ splice_out' = input_processor_for_qwen2_vl(llm_inputs, merge_size)
    /\ UNCHANGED <<loadVars, llm_inputs, merge_size, rotVars, capVars, quantVars, visionVars, orchVars>>

SpecSplicer == InitSplicer /\ [][ProcessInput]_vars

(***************************************************************************)
(* SpecRotary: serialized forward() calls on one rotary-embedding          *)
(* instance, from the state __init__ leaves (lines 280-281).               *)
(***************************************************************************)
InitRotary ==
    /\ llm_inputs = NoInputs
    /\ merge_size = 1
    /\ splice_out = Pending
    /\ seq_len_cached = 0
    /\ freqs_cached = NoTable
    /\ rot_last = NoCall
    /\ rot_hist = {}
    /\ max_requested = 0
    /\ thr = IdleThreads
    /\ model_cls = PlainClass
    /\ q_type = NoQuery
    /\ q_inst = NoQuery
    /\ quant_cfgs = FreshConfigs
    /\ cls_mappings = DeclaredMappings
    /\ quant_models = <<>>
    /\ quant_last = NoConstruction
    /\ vt = NotConstructed
    /\ vt_out = NoVisionCall
    /\ orch_in = NoForwardArgs
    /\ orch_out = NoForwardCall
    /\ lw_in = NoCheckpoint
    /\ lw_out = NotLoaded

Request ==
    /\ \E n \in 0..MaxSeqLen, kind \in ArgKinds : Forward(n, kind)
    /\ UNCHANGED <<loadVars, spliceVars, capVars, quantVars, visionVars, orchVars>>

SpecRotary == InitRotary /\ [][Request]_vars

(***************************************************************************)
(* SpecCap: the predicates called on a model class and on its instance.    *)
(***************************************************************************)
InitCap ==
    /\ llm_inputs = NoInputs
    /\ merge_size = 1
    /\ splice_out = Pending
    /\ seq_len_cached = 0
    /\ freqs_cached = NoTable
    /\ rot_last = NoCall
    /\ rot_hist = {}
    /\ max_requested = 0
    /\ thr = IdleThreads
    /\ model_cls \in ModelClasses
    /\ q_type = NoQuery
    /\ q_inst = NoQuery
    /\ quant_cfgs = FreshConfigs
    /\ cls_mappings = DeclaredMappings
    /\ quant_models = <<>>
    /\ quant_last = NoConstruction
    /\ vt = NotConstructed
    /\ vt_out = NoVisionCall
    /\ orch_in = NoForwardArgs
    /\ orch_out = NoForwardCall
    /\ lw_in = NoCheckpoint
    /\ lw_out = NotLoaded

QueryType ==
    \E pred \in Predicates :
        /\ q_type' = Answer(pred, CallPredicate(pred, model_cls, "type"))
        /\ UNCHANGED <<loadVars, model_cls, q_inst, spliceVars, rotVars, quantVars, visionVars, orchVars>>

QueryInstance ==
    \E pred \in Predicates :
        /\ q_inst' = Answer(pred, CallPredicate(pred, model_cls, "instance"))
        /\ UNCHANGED <<loadVars, model_cls, q_type, spliceVars, rotVars, quantVars, visionVars, orchVars>>

CapNext == QueryType \/ QueryInstance
SpecCap == InitCap /\ [][CapNext]_vars

(***************************************************************************)
(* SpecRotaryConc: two threads inside forward() of one instance, one       *)
(* attribute read or write per step (nothing in lines 283-300 takes a      *)
(* lock).                                                                  *)
(***************************************************************************)
InitRotaryConc ==
    /\ llm_inputs = NoInputs
    /\ merge_size = 1
    /\ splice_out = Pending
    /\ seq_len_cached = 0
    /\ freqs_cached = NoTable
    /\ rot_last = NoCall
    /\ rot_hist = {}
    /\ max_requested = 0
    /\ thr = IdleThreads
    /\ model_cls = PlainClass
    /\ q_type = NoQuery
    /\ q_inst = NoQuery
    /\ quant_cfgs = FreshConfigs
    /\ cls_mappings = DeclaredMappings
    /\ quant_models = <<>>
    /\ quant_last = NoConstruction
    /\ vt = NotConstructed
    /\ vt_out = NoVisionCall
    /\ orch_in = NoForwardArgs
    /\ orch_out = NoForwardCall
    /\ lw_in = NoCheckpoint
    /\ lw_out = NotLoaded

\* The lengths rot_pos_emb asks for: the largest h or w of a grid, at least 1.
GridLengths == 1..MaxSeqLen

ConcFrame ==
    UNCHANGED <<loadVars, rot_last, rot_hist, max_requested, spliceVars, capVars, quantVars,
                visionVars, orchVars>>

\* line 298: forward(seqlen) is entered
T_Call(t) ==
    /\ thr[t].pc = "idle"
    /\ \E n \in GridLengths, kind \in ArgKinds :
          thr' = [thr EXCEPT ![t] = [IdleThread EXCEPT !.pc = "check", !.n = n,
                                        !.kind = kind, !.seqlen = n]]
    /\ UNCHANGED <<seq_len_cached, freqs_cached>>
    /\ ConcFrame

\* line 284: the read of self._seq_len_cached and the comparison
T_Check(t) ==
    /\ thr[t].pc = "check"
    /\ thr' = [thr EXCEPT ![t].len_seen = seq_len_cached,
                          ![t].pc = IF needs_rebuild(thr[t].seqlen, seq_len_cached)
                                    THEN "grow" ELSE "slice"]
    /\ UNCHANGED <<seq_len_cached, freqs_cached>>
    /\ ConcFrame

\* lines 285-286: seqlen *= 2; self._seq_len_cached = seqlen
T_Grow(t) ==
    /\ thr[t].pc = "grow"
    /\ seq_len_cached' = grown(thr[t].seqlen)
    /\ thr' = [thr EXCEPT ![t].seqlen = grown(thr[t].seqlen),
                          ![t].len_seen = grown(thr[t].seqlen),
                          ![t].pc = "build"]
    /\ UNCHANGED freqs_cached
    /\ ConcFrame

\* lines 287-296: the table is computed and self._freqs_cached is written
T_Build(t) ==
    /\ thr[t].pc = "build"
    /\ freqs_cached' = Table(outer(arange(thr[t].seqlen), inv_freq))
    /\ thr' = [thr EXCEPT ![t].pc = "slice"]
    /\ UNCHANGED seq_len_cached
    /\ ConcFrame

\* line 300: return self._freqs_cached[:seqlen]
T_Slice(t) ==
    /\ thr[t].pc = "slice"
    /\ LET r == slice_rows(freqs_cached,
                           seqlen_at_return(thr[t].n, thr[t].kind, thr[t].seqlen))
       IN  thr' = [thr EXCEPT ![t].pc = "done", ![t].status = r.status,
                              ![t].rows = r.rows,
                              ![t].rows_seen = Len(freqs_cached.rows)]
    /\ UNCHANGED <<seq_len_cached, freqs_cached>>
    /\ ConcFrame

\* the caller takes the result; the thread is free for another call
T_Return(t) ==
    /\ thr[t].pc = "done"
    /\ thr' = [thr EXCEPT ![t] = IdleThread]
    /\ UNCHANGED <<seq_len_cached, freqs_cached>>
    /\ ConcFrame

Call   == \E t \in Threads : T_Call(t)
Check  == \E t \in Threads : T_Check(t)
Grow   == \E t \in Threads : T_Grow(t)
Build  == \E t \in Threads : T_Build(t)
SliceRows == \E t \in Threads : T_Slice(t)
Return == \E t \in Threads : T_Return(t)

RotaryConcNext == Call \/ Check \/ Grow \/ Build \/ SliceRows \/ Return
SpecRotaryConc == InitRotaryConc /\ [][RotaryConcNext]_vars

--------------------------------------------------------------------------
(***************************************************************************)
(* SpecQuantResolve: one model constructed, with any arguments.            *)
(***************************************************************************)
InitQuantResolve ==
    /\ llm_inputs = NoInputs
    /\ merge_size = 1
    /\ splice_out = Pending
    /\ seq_len_cached = 0
    /\ freqs_cached = NoTable
    /\ rot_last = NoCall
    /\ rot_hist = {}
    /\ max_requested = 0
    /\ thr = IdleThreads
    /\ model_cls = PlainClass
    /\ q_type = NoQuery
    /\ q_inst = NoQuery
    /\ quant_cfgs \in InitialConfigs
    /\ cls_mappings = DeclaredMappings
    /\ quant_models = <<>>
    /\ quant_last = NoConstruction
    /\ vt = NotConstructed
    /\ vt_out = NoVisionCall
    /\ orch_in = NoForwardArgs
    /\ orch_out = NoForwardCall
    /\ lw_in = NoCheckpoint
    /\ lw_out = NotLoaded

ConstructOnce ==
    /\ quant_models = <<>>
    /\ \E cls \in QuantClasses, args \in SeqsUpTo(ArgValues, MaxArgs),
          kwargs \in KwargLists :
          SupportsQuant_new(cls, args, kwargs)
    /\ UNCHANGED <<loadVars, spliceVars, rotVars, capVars, visionVars, orchVars>>

SpecQuantResolve == InitQuantResolve /\ [][ConstructOnce]_vars

(***************************************************************************)
(* SpecQuantShare: models constructed one after another on configs that    *)
(* they share.                                                             *)
(***************************************************************************)
SharedArgLists ==
    {<<VllmConfig("q1")>>, <<OtherArg, QuantizationConfig("q1")>>,
     <<QuantizationConfig("q2")>>, <<NoneArg>>}

InitQuantShare ==
    /\ llm_inputs = NoInputs
    /\ merge_size = 1
    /\ splice_out = Pending
    /\ seq_len_cached = 0
    /\ freqs_cached = NoTable
    /\ rot_last = NoCall
    /\ rot_hist = {}
    /\ max_requested = 0
    /\ thr = IdleThreads
    /\ model_cls = PlainClass
    /\ q_type = NoQuery
    /\ q_inst = NoQuery
    /\ quant_cfgs = OriginalConfigs
    /\ cls_mappings = DeclaredMappings
    /\ quant_models = <<>>
    /\ quant_last = NoConstruction
    /\ vt = NotConstructed
    /\ vt_out = NoVisionCall
    /\ orch_in = NoForwardArgs
    /\ orch_out = NoForwardCall
    /\ lw_in = NoCheckpoint
    /\ lw_out = NotLoaded

ConstructShared ==
    /\ Len(quant_models) < MaxModels
    /\ \E cls \in QuantClasses, args \in SharedArgLists :
          SupportsQuant_new(cls, args, <<>>)
    /\ UNCHANGED <<loadVars, spliceVars, rotVars, capVars, visionVars, orchVars>>

SpecQuantShare == InitQuantShare /\ [][ConstructShared]_vars

(***************************************************************************)
(* SpecVision: a vision transformer is constructed from a vision_config    *)
(* and, once constructed, run on batches of images.                        *)
(***************************************************************************)
InitVision ==
    /\ llm_inputs = NoInputs
    /\ merge_size = 1
    /\ splice_out = Pending
    /\ seq_len_cached = 0
    /\ freqs_cached = NoTable
    /\ rot_last = NoCall
    /\ rot_hist = {}
    /\ max_requested = 0
    /\ thr = IdleThreads
    /\ model_cls = PlainClass
    /\ q_type = NoQuery
    /\ q_inst = NoQuery
    /\ quant_cfgs = FreshConfigs
    /\ cls_mappings = DeclaredMappings
    /\ quant_models = <<>>
    /\ quant_last = NoConstruction
    /\ vt = NotConstructed
    /\ vt_out = NoVisionCall
    /\ orch_in = NoForwardArgs
    /\ orch_out = NoForwardCall
    /\ lw_in = NoCheckpoint
    /\ lw_out = NotLoaded

\* self.visual(x, grid_thw): lines 411-440, with the call of
\* self.rotary_pos_emb(max_grid_size) that rot_pos_emb makes at line 407
\* (torch.cat at line 405 has raised before it for an empty grid_thw)
VisualCall(grid_thw) ==
    /\ vt_out' = vision_forward(vt, grid_thw)
    /\ IF vt.pos_type = "2drope" /\ grid_thw # <<>>
       THEN Forward(max_grid_size(grid_thw), "tensor")
       ELSE UNCHANGED rotVars

ConstructVision ==
    /\ vt.status # "constructed"
    /\ \E pos_type \in PosTypes, m \in MergeSizes :
          vt' = Qwen2VisionTransformer_init(pos_type, m)
    /\ UNCHANGED <<loadVars, vt_out, spliceVars, rotVars, capVars, quantVars, orchVars>>

VisionForward ==
    /\ vt.status = "constructed"
    /\ \E grid_thw \in SeqsUpTo(GridChoices, MaxImages) : VisualCall(grid_thw)
    /\ UNCHANGED <<loadVars, vt, spliceVars, capVars, quantVars, orchVars>>

VisionNext == ConstructVision \/ VisionForward
SpecVision == InitVision /\ [][VisionNext]_vars

(***************************************************************************)
(* SpecOrch: one forward() of the model, whose vision transformer was      *)
(* constructed with the defaults of lines 315 and 322.                     *)
(***************************************************************************)
InitOrch ==
    /\ llm_inputs = NoInputs
    /\ merge_size = 1
    /\ splice_out = Pending
    /\ seq_len_cached = 0
    /\ freqs_cached = NoTable
    /\ rot_last = NoCall
    /\ rot_hist = {}
    /\ max_requested = 0
    /\ thr = IdleThreads
    /\ model_cls = PlainClass
    /\ q_type = NoQuery
    /\ q_inst = NoQuery
    /\ quant_cfgs = FreshConfigs
    /\ cls_mappings = DeclaredMappings
    /\ quant_models = <<>>
    /\ quant_last = NoConstruction
    /\ vt = Qwen2VisionTransformer_init("2drope", 2)
    /\ vt_out = NoVisionCall
    /\ orch_in \in ForwardArgs
    /\ orch_out = NoForwardCall
    /\ lw_in = NoCheckpoint
    /\ lw_out = NotLoaded

OrchForward ==
    /\ orch_out.status = "none"
    /\ orch_out' = orchestrator_forward(orch_in, vision_forward(vt, orch_in.vision_grid_thw))
    /\ IF orchestrator_forward(orch_in, vision_forward(vt, orch_in.vision_grid_thw)).visual_calls = 1
       THEN VisualCall(orch_in.vision_grid_thw)
       ELSE UNCHANGED <<vt_out, rotVars>>
    /\ UNCHANGED <<loadVars, vt, orch_in, spliceVars, capVars, quantVars>>

SpecOrch == InitOrch /\ [][OrchForward]_vars

--------------------------------------------------------------------------
(***************************************************************************)
(* SpecLoad: one load_weights() call on a checkpoint.                      *)
(***************************************************************************)
InitLoad ==
    /\ llm_inputs = NoInputs
    /\ merge_size = 1
    /\ splice_out = Pending
    /\ seq_len_cached = 0
    /\ freqs_cached = NoTable
    /\ rot_last = NoCall
    /\ rot_hist = {}
    /\ max_requested = 0
    /\ thr = IdleThreads
    /\ model_cls = PlainClass
    /\ q_type = NoQuery
    /\ q_inst = NoQuery
    /\ quant_cfgs = FreshConfigs
    /\ cls_mappings = DeclaredMappings
    /\ quant_models = <<>>
    /\ quant_last = NoConstruction
    /\ vt = NotConstructed
    /\ vt_out = NoVisionCall
    /\ orch_in = NoForwardArgs
    /\ orch_out = NoForwardCall
    /\ lw_in \in Checkpoints
    /\ lw_out = NotLoaded

LoadWeights ==
    /\ lw_out.status = "none"
    /\ lw_out' = load_weights(lw_in)
    /\ UNCHANGED <<lw_in, spliceVars, rotVars, capVars, quantVars, visionVars, orchVars>>

SpecLoad == InitLoad /\ [][LoadWeights]_vars

--------------------------------------------------------------------------
(***************************************************************************)
(* SpecPipeline: one request goes through the input processor and then     *)
(* its images through the vision transformer of the model, both set up     *)
(* from the same spatial-merge factor (merge_size of the image processor,  *)
(* spatial_merge_size of the vision_config).                               *)
(***************************************************************************)
InitPipeline ==
    /\ llm_inputs \in LLMInputs
    /\ merge_size \in MergeSizes
    /\ splice_out = Pending
    /\ seq_len_cached = 0
    /\ freqs_cached = NoTable
    /\ rot_last = NoCall
    /\ rot_hist = {}
    /\ max_requested = 0
    /\ thr = IdleThreads
    /\ model_cls = PlainClass
    /\ q_type = NoQuery
    /\ q_inst = NoQuery
    /\ quant_cfgs = FreshConfigs
    /\ cls_mappings = DeclaredMappings
    /\ quant_models = <<>>
    /\ quant_last = NoConstruction
    /\ vt = Qwen2VisionTransformer_init("2drope", merge_size)
    /\ vt_out = NoVisionCall
    /\ orch_in = NoForwardArgs
    /\ orch_out = NoForwardCall
    /\ lw_in = NoCheckpoint
    /\ lw_out = NotLoaded

\* line 666: self.visual(pixel_values, grid_thw=vision_grid_thw) on the
\* grid the input processor left in multi_modal_data
VisualOnRequest ==
    /\ splice_out.status = "returned"
    /\ splice_out.multi_modal_data.kind = "processed"
    /\ vt_out.status = "none"
    /\ VisualCall(splice_out.multi_modal_data.image_objects)
    /\ UNCHANGED <<loadVars, vt, spliceVars, capVars, quantVars, orchVars>>

PipelineNext == ProcessInput \/ VisualOnRequest
SpecPipeline == InitPipeline /\ [][PipelineNext]_vars

--------------------------------------------------------------------------
(***************************************************************************)
(* TokenSplicer properties (SpecSplicer).                                  *)
(***************************************************************************)
InIds   == llm_inputs.prompt_token_ids
InObjs  == llm_inputs.multi_modal_data.image_objects
HasImageKey == llm_inputs.multi_modal_data.kind = "image"
SpliceDone == splice_out.status # "pending"

\* The tokens of s that are not the placeholder, in order.
RECURSIVE TextOf(_)
TextOf(s) ==
    IF s = <<>> THEN <<>>
    ELSE IF Head(s) = vision_token_id THEN TextOf(Tail(s))
         ELSE <<Head(s)>> \o TextOf(Tail(s))

\* t * (h / merge) * (w / merge) of grid entry g
ExpansionOf(g, merge) == g[1] * (g[2] \div merge) * (g[3] \div merge)

RECURSIVE SumExpansions(_, _)
SumExpansions(grid, merge) ==
    IF grid = <<>> THEN 0
    ELSE ExpansionOf(Head(grid), merge) + SumExpansions(Tail(grid), merge)

\* ids read token by token: a text token is kept, the k-th placeholder
\* becomes ExpansionOf(grid[k]) placeholders.
RECURSIVE Expanded(_, _, _, _)
Expanded(ids, grid, k, merge) ==
    IF ids = <<>> THEN <<>>
    ELSE IF Head(ids) = vision_token_id
         THEN Repeat(vision_token_id, ExpansionOf(grid[k], merge))
                  \o Expanded(Tail(ids), grid, k + 1, merge)
         ELSE <<Head(ids)>> \o Expanded(Tail(ids), grid, k, merge)

\* C1: when the request holds at least one image and as many placeholder
\* tokens as grid entries, the processor returns the input with its i-th
\* placeholder replaced by t_i*(h_i/merge)*(w_i/merge) placeholders, every
\* other token kept in order, so the output holds the sum of the expansions
\* in placeholders.
C1_SpliceExpands ==
    (SpliceDone /\ HasImageKey /\ InObjs # <<>>
        /\ Count(InIds, vision_token_id) = Len(InObjs))
    => /\ splice_out.status = "returned"
       /\ splice_out.prompt_token_ids = Expanded(InIds, InObjs, 1, merge_size)
       /\ TextOf(splice_out.prompt_token_ids) = TextOf(InIds)
       /\ Count(splice_out.prompt_token_ids, vision_token_id)
              = SumExpansions(InObjs, merge_size)

\* Two images of different expansions (2 and 1 tokens) around a text token.
C1_Witness ==
    /\ splice_out.status = "returned"
    /\ InIds = <<vision_token_id, 1, vision_token_id>>
    /\ InObjs = <<<<2, 2, 2>>, <<1, 2, 2>>>>
    /\ merge_size = 2
    /\ splice_out.prompt_token_ids
           = <<vision_token_id, vision_token_id, 1, vision_token_id>>

C3_ZeroImages ==
    (SpliceDone /\ HasImageKey /\ InObjs = <<>>)
    => /\ splice_out.status = "returned"
       /\ splice_out.prompt_token_ids = InIds
       /\ splice_out.prompt = llm_inputs.prompt
       /\ splice_out.multi_modal_data = MMNone

\* No image, yet placeholders in the prompt.
C3_Witness ==
    /\ splice_out.status = "returned"
    /\ HasImageKey /\ InObjs = <<>>
    /\ Count(InIds, vision_token_id) = 2
    /\ splice_out.prompt_token_ids = InIds

--------------------------------------------------------------------------
(***************************************************************************)
(* RotaryPositionCache properties (SpecRotary, SpecRotaryConc).            *)
(***************************************************************************)
\* Row p of the table: p times each inverse frequency.
RowAt(p) == [i \in 1..Len(inv_freq) |-> p * inv_freq[i]]
\* The table of L rows, positions 0 .. L-1.
FullTable(L) == [k \in 1..L |-> RowAt(k - 1)]
FirstRows(rows, n) == SubSeq(rows, 1, n)
IsPrefix(a, b) == Len(a) <= Len(b) /\ \A k \in 1..Len(a) : a[k] = b[k]
Cached == ~freqs_cached.is_none

\* C4: a request of length n on a cache of recorded length L leaves the
\* table and L unchanged and is served the first n rows when n <= L; when
\* n > L the table is rebuilt for length 2n, L becomes 2n and the first n
\* rows of the new table are served.
C4_TransitionRule ==
    rot_last.status # "none" =>
        LET n == rot_last.n
            L == rot_last.len_before
        IN  IF n <= L
            THEN /\ seq_len_cached = L
                 /\ freqs_cached = rot_last.freqs_before
                 /\ rot_last.status = "returned"
                 /\ rot_last.rows = FirstRows(rot_last.freqs_before.rows, n)
            ELSE /\ seq_len_cached = 2 * n
                 /\ freqs_cached = Table(FullTable(2 * n))
                 /\ rot_last.status = "returned"
                 /\ rot_last.rows = FirstRows(FullTable(2 * n), n)

\* C5 as the claim has it: in the cached state L is the largest sequence
\* length ever requested.
C5_LengthIsLargestRequested == Cached => seq_len_cached = max_requested

\* C5, amended: L never decreases; the table is only ever replaced by a
\* strictly longer table, computed whole for the new L; and L is at least
\* the largest length ever requested and at most twice it.
C5_MonotonicGrowth ==
    [][/\ seq_len_cached' >= seq_len_cached
       /\ (freqs_cached' # freqs_cached =>
              /\ Len(freqs_cached'.rows) > Len(freqs_cached.rows)
              /\ freqs_cached' = Table(FullTable(seq_len_cached')))
       /\ max_requested' <= seq_len_cached'
       /\ seq_len_cached' <= 2 * max_requested']_vars

\* The cache was rebuilt from length 2 to length 6 by a request of length 3.
C5_Witness ==
    /\ Cached
    /\ rot_last.len_before = 2
    /\ rot_last.n = 3
    /\ seq_len_cached = 6
    /\ Len(freqs_cached.rows) = 6

\* C6: every row served is the row of its position, whatever was requested
\* before, and the rows served for length m are a prefix of the rows served
\* for any length n >= m.
C6_HistoryIndependence ==
    /\ \A a \in rot_hist : \A k \in 1..Len(a.rows) : a.rows[k] = RowAt(k - 1)
    /\ \A a, b \in rot_hist : a.n <= b.n => IsPrefix(a.rows, b.rows)

\* C7: no request, interleaved with a growth request or not, sees a
\* recorded length above the number of rows of the table it is served from,
\* and none is served fewer than n rows.
C7_AtomicReplacement ==
    \A t \in Threads :
        thr[t].pc = "done" =>
            /\ thr[t].len_seen <= thr[t].rows_seen
            /\ Len(thr[t].rows) >= thr[t].n

--------------------------------------------------------------------------
(***************************************************************************)
(* CapabilityRegistry properties (SpecCap).                                *)
(***************************************************************************)
Asked(q, pred) == q.pred = pred
Present(a) == model_cls.attrs[a] # "absent"
LoRACompanions ==
    {"packed_modules_mapping", "embedding_modules", "embedding_padding_modules"}
LoRAMarkerTrue == model_cls.attrs["supports_lora"] = "true"
LoRAAllFour == LoRAMarkerTrue /\ \A a \in LoRACompanions : Present(a)

\* C8: supports_lora gives true exactly when the marker is set to true and
\* the three companion attributes are present, and then without a warning;
\* a subject whose marker is absent or false is never reported to support
\* LoRA.
C8_LoRAPredicate ==
    \A q \in {q_type, q_inst} :
        Asked(q, "supports_lora") =>
            /\ q.result <=> LoRAAllFour
            /\ LoRAAllFour => q.warnings = {}

\* C9: the predicate asked of the class and of its instance gives the same
\* boolean.
C9_TypeInstanceAgree ==
    (q_type.pred # "none" /\ q_type.pred = q_inst.pred)
        => q_type.result = q_inst.result

\* What forward's signature says, and the structural check of supports_pp as
\* isinstance makes it: the class inherits SupportsPP (instances only), or
\* the marker and both methods are there, no method being None.
AcceptsIntermediateTensors == model_cls.attrs["forward"] = "function_it"
PPStructural(form) ==
    \/ form = "instance" /\ "SupportsPP" \in model_cls.bases
    \/ /\ Present("supports_pp")
       /\ model_cls.attrs["make_empty_intermediate_tensors"] \notin {"absent", "none"}
       /\ model_cls.attrs["forward"] \notin {"absent", "none"}
PPAnswerRight(q, form) ==
    Asked(q, "supports_pp") =>
        /\ q.result <=> (PPStructural(form) /\ AcceptsIntermediateTensors)
        /\ (PPStructural(form) /\ ~AcceptsIntermediateTensors)
               => (~q.result /\ "pp_no_intermediate_tensors" \in q.warnings)

PPCompanions == {"make_empty_intermediate_tensors"}
FlagSet(marker) == model_cls.attrs[marker] = "true"
Mismatch(marker, companions) ==
    \/ FlagSet(marker) /\ \E a \in companions : ~Present(a)
    \/ ~FlagSet(marker) /\ \A a \in companions : Present(a)
WarnedFalse(q) == ~q.result /\ q.warnings # {}

\* C11: supports_lora and supports_pp, asked of a subject whose flag and
\* companions mismatch, give false and emit a warning (they never raise).
C11_MismatchDiagnostics ==
    \A q \in {q_type, q_inst} :
        /\ (Asked(q, "supports_lora") /\ Mismatch("supports_lora", LoRACompanions))
               => WarnedFalse(q)
        /\ (Asked(q, "supports_pp") /\ Mismatch("supports_pp", PPCompanions))
               => WarnedFalse(q)

--------------------------------------------------------------------------
(***************************************************************************)
(* SupportsQuant properties (SpecQuantResolve, SpecQuantShare).            *)
(***************************************************************************)
Constructed == quant_last.status = "constructed"
IsConfigArg(v) == v.kind \in {"VllmConfig", "QuantizationConfig"}
\* every entry the class declares is in config c's mapping
MergedInto(cls, c) ==
    \A k \in PackedKeys :
        cls_mappings[cls][k] # "absent" => quant_cfgs[c][k] = cls_mappings[cls][k]
ThreeArgsEndingInConfig ==
    /\ Constructed
    /\ Len(quant_last.args) = 3
    /\ quant_last.args[3].kind = "QuantizationConfig"
ResolvedToThird ==
    /\ quant_last.quant_config = quant_last.args[3].ref
    /\ quant_models[Len(quant_models)].quant_config = quant_last.args[3].ref
    /\ MergedInto(quant_last.cls, quant_last.args[3].ref)

\* C12 as claimed: a model constructed with (A, B, quant_cfg) holds quant_cfg
\* and has merged its class's mapping into it, whatever A and B are.
C12_AnyLeadingArgs == ThreeArgsEndingInConfig => ResolvedToThird

\* C12: a model constructed with (A, B, quant_cfg), A and B being neither a
\* VllmConfig nor a QuantizationConfig, holds quant_cfg (the same object)
\* and every entry of its class's packed_modules_mapping is in quant_cfg's.
C12_PlainLeadingArgs ==
    (/\ ThreeArgsEndingInConfig
     /\ ~IsConfigArg(quant_last.args[1])
     /\ ~IsConfigArg(quant_last.args[2])) => ResolvedToThird

\* ModelB(other, None, q1): the instance holds q1, and q1's mapping has
\* ModelB's two entries
C12_Witness ==
    /\ Constructed
    /\ quant_last.cls = "ModelB"
    /\ quant_last.args = <<OtherArg, NoneArg, QuantizationConfig("q1")>>
    /\ quant_last.quant_config = "q1"
    /\ quant_cfgs["q1"] = [qkv_proj |-> "b", gate_up_proj |-> "a"]

\* The scan of C13 written from the claim: the positional arguments in
\* order, then the keyword arguments; the first configuration object decides.
ScanOrder(c) == c.args \o c.kwargs
ConfigPositions(c) == {i \in 1..Len(ScanOrder(c)) : IsConfigArg(ScanOrder(c)[i])}
FirstConfigPosition(c) ==
    CHOOSE i \in ConfigPositions(c) : \A j \in ConfigPositions(c) : i <= j
TailsTried == SeqsUpTo(ArgValues, 1)

\* C13: in every construction the instance's quant_config is what the first
\* VllmConfig or QuantizationConfig of (positional arguments, then keyword
\* arguments) gives, whatever follows it; with no such argument the
\* quant_config is None, the instance is constructed, and every config's
\* mapping is as it was.
C13_FirstMatchWins ==
    [][quant_last' # quant_last =>
        LET c == quant_last' IN
        /\ c.status = "constructed"
        /\ Len(quant_models') = Len(quant_models) + 1
        /\ quant_models'[Len(quant_models')].quant_config = c.quant_config
        /\ IF ConfigPositions(c) = {}
           THEN /\ c.quant_config = "None"
                /\ quant_cfgs' = quant_cfgs
           ELSE LET i == FirstConfigPosition(c) IN
                /\ c.quant_config = ScanOrder(c)[i].ref
                /\ \A tail \in TailsTried :
                      find_quant_config(SubSeq(ScanOrder(c), 1, i) \o tail, <<>>)
                          = c.quant_config
                /\ \A other \in ConfigIds \ {c.quant_config} :
                      quant_cfgs'[other] = quant_cfgs[other]]_vars

\* ModelA(other, VllmConfig(quant_config=None), q1, key=q2): the VllmConfig
\* decides, the instance holds None and q1, q2 are not consulted
C13_Witness ==
    /\ Constructed
    /\ quant_last.args = <<OtherArg, VllmConfig("None"), QuantizationConfig("q1")>>
    /\ quant_last.kwargs = <<QuantizationConfig("q2")>>
    /\ quant_last.quant_config = "None"
    /\ quant_cfgs["q1"] = EmptyMapping
    /\ quant_cfgs["q2"] = EmptyMapping

\* The models, in construction order, that hold config c, and the mapping
\* C14 expects of c: for each key the value declared by the last holder
\* that declares it, the original value when no holder does.
Holders(c) == {i \in 1..Len(quant_models) : quant_models[i].quant_config = c}
Declarers(c, k) ==
    {i \in Holders(c) : DeclaredMappings[quant_models[i].cls][k] # "absent"}
LastDeclarer(c, k) == CHOOSE i \in Declarers(c, k) : \A j \in Declarers(c, k) : j <= i
ExpectedMapping(c) ==
    [k \in PackedKeys |->
        IF Declarers(c, k) = {} THEN OriginalConfigs[c][k]
        ELSE DeclaredMappings[quant_models[LastDeclarer(c, k)].cls][k]]

\* C14: after any sequence of constructions, each config's mapping is its
\* original entries overlaid with the declared entries of every model that
\* holds it, a later model winning on an equal key; the models hold the
\* config itself, so each of them sees that mapping; and no class's declared
\* mapping has changed.
C14_SharedMerge ==
    /\ \A c \in ConfigIds : quant_cfgs[c] = ExpectedMapping(c)
    /\ \A i \in 1..Len(quant_models) :
          quant_models[i].quant_config \in ConfigIds \cup {"None"}
    /\ cls_mappings = DeclaredMappings

\* ModelA then ModelB on q1, whose qkv_proj entry was "c": ModelB's value
\* has replaced ModelA's, which had replaced the original
C14_Witness ==
    /\ Len(quant_models) = 2
    /\ quant_models[1] = [cls |-> "ModelA", quant_config |-> "q1"]
    /\ quant_models[2] = [cls |-> "ModelB", quant_config |-> "q1"]
    /\ quant_cfgs["q1"] = [qkv_proj |-> "b", gate_up_proj |-> "a"]

--------------------------------------------------------------------------
(***************************************************************************)
(* VisionTransformerPipeline properties (SpecVision).                      *)
(***************************************************************************)
VisionReturned == vt_out.status = "returned"
\* written from the claims: the frames and patches of the first k images
RECURSIVE FramesBefore(_, _)
FramesBefore(grid, k) == IF k = 0 THEN 0 ELSE FramesBefore(grid, k - 1) + grid[k][1]
RECURSIVE PatchesBefore(_, _)
PatchesBefore(grid, k) ==
    IF k = 0 THEN 0
    ELSE PatchesBefore(grid, k - 1) + grid[k][1] * grid[k][2] * grid[k][3]
\* the image that frame f (1-based, over the whole batch) belongs to
ImageOfFrame(grid, f) ==
    CHOOSE k \in 1..Len(grid) : FramesBefore(grid, k - 1) < f /\ f <= FramesBefore(grid, k)
\* the attention windows flash_attn_varlen_func is given: [cu[f], cu[f+1])
Windows(cu) == {<<cu[f], cu[f + 1]>> : f \in 1..(Len(cu) - 1)}
InsideImage(grid, win, k) ==
    PatchesBefore(grid, k - 1) <= win[1] /\ win[2] <= PatchesBefore(grid, k)
\* the windows of image k, counted from the image's first patch
WindowsOfImage(grid, cu, k) ==
    {<<win[1] - PatchesBefore(grid, k - 1), win[2] - PatchesBefore(grid, k - 1)>> :
        win \in {x \in Windows(cu) : InsideImage(grid, x, k)}}
Permutations(n) == {p \in [1..n -> 1..n] : \A i, j \in 1..n : p[i] = p[j] => i = j}
Permuted(grid, p) == [i \in 1..Len(grid) |-> grid[p[i]]]

\* C15: every window between consecutive offsets lies inside the patches of
\* one image, and an image has the same windows, counted from its first
\* patch, wherever a permutation of the batch puts it.
C15_AttentionIsolation ==
    VisionReturned =>
        LET grid == vt_out.grid_thw
            cu == vt_out.cu_seqlens
        IN  /\ \A win \in Windows(cu) :
                  /\ win[1] < win[2]
                  /\ \E k \in 1..Len(grid) : InsideImage(grid, win, k)
            /\ \A p \in Permutations(Len(grid)) : \A i \in 1..Len(grid) :
                  WindowsOfImage(Permuted(grid, p),
                                 compute_cu_seqlens(Permuted(grid, p)), i)
                      = WindowsOfImage(grid, cu, p[i])

\* a one-frame image of 4 patches before a two-frame image of 8
C15_Witness ==
    /\ VisionReturned
    /\ vt_out.grid_thw = <<<<1, 2, 2>>, <<2, 2, 2>>>>
    /\ vt_out.cu_seqlens = <<0, 4, 8, 12>>

\* C16: the offsets start at 0, never decrease, are 1 + sum t_i in number,
\* end at sum t_i*h_i*w_i, and each step is the h*w of the image whose
\* frame it spans, the images in input order.
C16_SequenceOffsets ==
    VisionReturned =>
        LET grid == vt_out.grid_thw
            cu == vt_out.cu_seqlens
        IN  /\ Len(cu) = 1 + FramesBefore(grid, Len(grid))
            /\ cu[1] = 0
            /\ cu[Len(cu)] = PatchesBefore(grid, Len(grid))
            /\ \A f \in 1..(Len(cu) - 1) :
                  /\ cu[f] <= cu[f + 1]
                  /\ cu[f + 1] - cu[f]
                        = grid[ImageOfFrame(grid, f)][2] * grid[ImageOfFrame(grid, f)][3]

\* two frames of 4 patches, then one frame of 8
C16_Witness ==
    /\ VisionReturned
    /\ vt_out.grid_thw = <<<<2, 2, 2>>, <<1, 2, 4>>>>
    /\ vt_out.cu_seqlens = <<0, 4, 8, 16>>

\* written from the claim: the cells of an h x w grid, the m x m block at
\* block row R and block column C, and the pair pos_ids holds for patch i
\* (1-based) of frame r (0-based) of image k
Cells(h, w) == {<<r, c>> : r \in 0..(h - 1), c \in 0..(w - 1)}
Block(R, C, m) == {<<R * m + b, C * m + d>> : b \in 0..(m - 1), d \in 0..(m - 1)}
PairAt(grid, k, r, i) ==
    vt_out.pos_ids[PatchesBefore(grid, k - 1) + r * grid[k][2] * grid[k][3] + i]
RotaryReturned == VisionReturned /\ vt.pos_type = "2drope"

\* C17: for every image, in input order, each of its t frames lists every
\* cell of the h x w grid exactly once, every aligned run of m*m pairs is
\* one m x m block of adjacent cells, and every frame repeats the first.
C17_MergeBlockOrder ==
    RotaryReturned =>
        LET grid == vt_out.grid_thw
            m == vt.spatial_merge_size
        IN  /\ Len(vt_out.pos_ids) = PatchesBefore(grid, Len(grid))
            /\ \A k \in 1..Len(grid) :
                  LET h == grid[k][2]
                      w == grid[k][3]
                  IN  \A r \in 0..(grid[k][1] - 1) :
                        /\ {PairAt(grid, k, r, i) : i \in 1..(h * w)} = Cells(h, w)
                        /\ \A i \in 1..(h * w) :
                              PairAt(grid, k, r, i) = PairAt(grid, k, 0, i)
                        /\ \A j \in 0..(((h * w) \div (m * m)) - 1) :
                              \E R \in 0..((h \div m) - 1), C \in 0..((w \div m) - 1) :
                                 {PairAt(grid, k, r, j * m * m + i) : i \in 1..(m * m)}
                                     = Block(R, C, m)

\* a 2 x 4 grid with m = 2: the left block, then the right block
C17_Witness ==
    /\ RotaryReturned
    /\ vt.spatial_merge_size = 2
    /\ vt_out.grid_thw = <<<<1, 2, 4>>>>
    /\ vt_out.pos_ids = << <<0, 0>>, <<0, 1>>, <<1, 0>>, <<1, 1>>,
                           <<0, 2>>, <<0, 3>>, <<1, 2>>, <<1, 3>> >>

SupportedPosTypes == {"abs", "2drope"}

\* C18: a construction with a pos_type other than 'abs' and '2drope'
\* raises, every constructed vision transformer has one of the two, and no
\* forward() on a constructed one ends in the unsupported-pos_type error.
C18_UnsupportedModeFailsEarly ==
    /\ vt.status = "raised" <=> (vt.status # "none" /\ vt.pos_type \notin SupportedPosTypes)
    /\ vt.status = "constructed" => vt.pos_type \in SupportedPosTypes
    /\ vt_out.status # "unsupported_pos_type"

\* pos_type 'learned' was asked for: __init__ raised, nothing was run
C18_Witness ==
    /\ vt.status = "raised"
    /\ vt.pos_type = "learned"
    /\ vt_out.status = "none"

--------------------------------------------------------------------------
(***************************************************************************)
(* MultimodalOrchestrator properties (SpecOrch).                           *)
(***************************************************************************)
ForwardDone == orch_out.status # "none"
PixelsPresent == ~orch_in.pixel_values.is_none /\ orch_in.pixel_values.size0 > 0
PassedThrough ==
    /\ orch_out.status = "returned"
    /\ orch_out.visual_calls = 0
    /\ vt_out.status = "none"
    /\ orch_out.backbone_calls = 1
    /\ orch_out.input_ids = Ids(orch_in.input_ids)
    /\ orch_out.inputs_embeds.is_none
    /\ orch_out.positions = orch_in.positions
Fused ==
    /\ orch_out.status = "returned"
    /\ orch_out.visual_calls = 1
    /\ vt_out.status = "returned"
    /\ orch_out.backbone_calls = 1
    /\ orch_out.input_ids.is_none
    /\ orch_out.inputs_embeds = FusedEmbeds(orch_in.input_ids, vt_out.rows)
    /\ orch_out.positions = orch_in.positions
AbortedBeforeBackbone == orch_out.status = "raised" /\ orch_out.backbone_calls = 0

\* C19 as claimed: the call fuses exactly when the pixel tensor is present
\* and non-empty, passes the token ids through otherwise, and calls the
\* backbone exactly once either way.
C19_FusesIffPixels ==
    ForwardDone => IF PixelsPresent THEN Fused ELSE PassedThrough

\* C19: without a present, non-empty pixel tensor the vision pipeline is not
\* invoked and the backbone is called once with the original token ids, no
\* embeddings and the positions unchanged; with one, the call either aborts
\* before the backbone is called or calls it once with the fused embeddings,
\* no token ids and the positions unchanged.
C19_ForwardDispatch ==
    ForwardDone =>
        IF PixelsPresent THEN Fused \/ AbortedBeforeBackbone ELSE PassedThrough

\* one image of 4 patches (1 merged row), one vision token, mrope with
\* (3, seq_len) positions: fused, the backbone gets no token ids
C19_Witness ==
    /\ orch_in.input_ids = <<vision_token_id, 1>>
    /\ orch_in.vision_grid_thw = << <<1, 2, 2>> >>
    /\ orch_in.rope_scaling = "mrope"
    /\ orch_in.positions = [ndim |-> 2, size0 |-> 3]
    /\ Fused
    /\ orch_out.inputs_embeds.image_rows = 1

MropeConfigured == orch_in.rope_scaling = "mrope"
ThreeRowLayout == orch_in.positions.ndim = 2 /\ orch_in.positions.size0 = 3
LayoutAbort ==
    /\ orch_out.status = "raised"
    /\ orch_out.error = "AssertionError"
    /\ orch_out.visual_calls = 0
    /\ orch_out.backbone_calls = 0

\* C20: with vision input present, a call under mrope whose positions are
\* not (3, seq_len) aborts before the vision pipeline and the backbone are
\* invoked; a call under any other configuration, one without rope_scaling
\* included, has no layout requirement and goes on to the vision pipeline.
C20_PositionLayout ==
    (ForwardDone /\ PixelsPresent) =>
        /\ (MropeConfigured /\ ~ThreeRowLayout) => LayoutAbort
        /\ ~MropeConfigured => orch_out.visual_calls = 1

--------------------------------------------------------------------------
(***************************************************************************)
(* Weight-loading properties (SpecLoad).                                   *)
(***************************************************************************)
LoadDone == lw_out.status # "none"

\* the routing table as the description gives it: substring, fused
\* parameter, shard id
RoutingTable ==
    <<<<"q_proj", "qkv_proj", "q">>, <<"k_proj", "qkv_proj", "k">>,
      <<"v_proj", "qkv_proj", "v">>, <<"up_proj", "gate_up_proj", "1">>,
      <<"gate_proj", "gate_up_proj", "0">>>>

Matching(name) == {k \in DOMAIN RoutingTable : name_contains(name, <<RoutingTable[k][1]>>)}
FirstMatching(name) == CHOOSE k \in Matching(name) : \A j \in Matching(name) : k <= j

\* where the description sends a pair that is not skipped
Destination(name) ==
    IF Matching(name) = {} THEN [param |-> name, shard_id |-> "none"]
    ELSE LET e == RoutingTable[FirstMatching(name)]
         IN  [param |-> name_replace(name, e[1], e[2]), shard_id |-> e[3]]

ToSkip(name) ==
    \/ name_contains(name, <<"rotary_emb", "inv_freq">>)
    \/ lw_in.tie_word_embeddings /\ name_contains(name, <<"lm_head", "weight">>)

CallsFor(name) == {j \in DOMAIN lw_out.calls : lw_out.calls[j].weight = name}

\* the pair is handed to its destination's loader exactly once, with the
\* destination's shard id
RoutedOnce(name) ==
    /\ Cardinality(CallsFor(name)) = 1
    /\ \A j \in CallsFor(name) :
        /\ lw_out.calls[j].param = Destination(name).param
        /\ lw_out.calls[j].shard_id = Destination(name).shard_id
        /\ lw_out.calls[j].param \in params_dict

\* the pairs whose destination is no parameter of the model
Unroutable ==
    {i \in DOMAIN lw_in.weights :
        /\ ~ToSkip(lw_in.weights[i])
        /\ Destination(lw_in.weights[i]).param \notin params_dict}
FirstUnroutable ==
    IF Unroutable = {} THEN Len(lw_in.weights) + 1
    ELSE CHOOSE i \in Unroutable : \A j \in Unroutable : i <= j

\* C21 as stated: load_weights returns, having skipped every pair named
\* rotary_emb.inv_freq (and lm_head.weight under tied embeddings) and handed
\* every other pair exactly once to the loader of the parameter the routing
\* table names, with its shard id, or of the unchanged name with no shard id.
C21_RoutesEveryPair ==
    LoadDone =>
        /\ lw_out.status = "returned"
        /\ \A i \in DOMAIN lw_in.weights :
            IF ToSkip(lw_in.weights[i]) THEN CallsFor(lw_in.weights[i]) = {}
            ELSE RoutedOnce(lw_in.weights[i])

\* C21, amended: the pairs before the first one whose destination is no
\* parameter of the model are skipped or routed exactly once as described;
\* at that pair load_weights raises KeyError and no later pair is loaded;
\* when there is no such pair, load_weights returns with every pair settled.
C21_RoutesUntilUnknownName ==
    LoadDone =>
        /\ lw_out.status =
            IF Unroutable = {} THEN "returned" ELSE "KeyError"
        /\ \A i \in DOMAIN lw_in.weights :
            IF i >= FirstUnroutable \/ ToSkip(lw_in.weights[i])
            THEN CallsFor(lw_in.weights[i]) = {}
            ELSE RoutedOnce(lw_in.weights[i])

\* a tied-embedding checkpoint whose up_proj weight was routed to shard 1 of
\* gate_up_proj and whose lm_head.weight was skipped
C21_Witness ==
    /\ lw_out.status = "returned"
    /\ lw_in.tie_word_embeddings
    /\ lw_in.weights = <<MlpPrefix \o <<"up_proj", "weight">>, <<"lm_head", "weight">>>>
    /\ Len(lw_out.calls) = 1
    /\ lw_out.calls[1].param = MlpPrefix \o <<"gate_up_proj", "weight">>
    /\ lw_out.calls[1].shard_id = "1"

--------------------------------------------------------------------------
(***************************************************************************)
(* Splicer and merger together (SpecPipeline).                             *)
(***************************************************************************)
\* the request was spliced and its images went through the vision pipeline
PipelineDone ==
    /\ splice_out.status = "returned"
    /\ splice_out.multi_modal_data.kind = "processed"
    /\ vt_out.status = "returned"

PlaceholdersEmitted == Count(splice_out.prompt_token_ids, vision_token_id)

\* C22: for every configured spatial-merge factor and every list of grids
\* whose heights and widths it divides, the vision pipeline's merger puts
\* out as many rows as the splicer emitted placeholder tokens.
C22_RowCountAgreement ==
    (/\ PipelineDone
     /\ \A i \in DOMAIN vt_out.grid_thw :
            /\ vt_out.grid_thw[i][2] % merge_size = 0
            /\ vt_out.grid_thw[i][3] % merge_size = 0)
        => vt_out.rows = PlaceholdersEmitted

--------------------------------------------------------------------------
(***************************************************************************)
(* RotaryPositionCache: what one request is served (SpecRotary).           *)
(***************************************************************************)
\* C23: a serialized request of any length n >= 0, on any reachable cache
\* state, returns without error the n rows of positions 0 .. n-1, and
\* leaves a cached table of exactly L rows with L >= n.
C23_ServesExactlyN ==
    rot_last.status # "none" =>
        /\ rot_last.status = "returned"
        /\ rot_last.rows = FullTable(rot_last.n)
        /\ Cached
        /\ Len(freqs_cached.rows) = seq_len_cached
        /\ seq_len_cached >= rot_last.n

==========================================================================
